---- MODULE Spec2Model ----
(***************************************************************************)
(* Model of the marketplace's compatibility scorer (lib/compatibility.ts)  *)
(* and of the state around it.                                             *)
(*                                                                         *)
(* calcCompatibility works on JavaScript numbers, that is on IEEE-754      *)
(* binary64 values.  Its results depend on the rounding of every single    *)
(* operation (a mean of exactly 62.5 is computed as 62.49999999999999 for  *)
(* some orders of the summands), so the model carries binary64 arithmetic  *)
(* bit for bit: a number is a sign and a magnitude in units of 2^-60, the  *)
(* magnitude held in four limbs of 20 bits, and every operation rounds its *)
(* exact result to 53 significant bits, ties to even.                      *)
(***************************************************************************)
EXTENDS Integers, Sequences, FiniteSets, TLC

(***************************************************************************)
(* IEEE-754 binary64 arithmetic on the values the scorer meets             *)
(* (magnitudes below 2^20, multiples of 2^-60).                            *)
(***************************************************************************)

\* One limb holds 20 bits; mag = <<l1, l2, l3, l4>> stands for
\* (l1 + l2*B + l3*B^2 + l4*B^3) * 2^-60, so l4 is the integer part.
B == 2^20

\* Carry (or borrow) propagation over four limbs.
Norm(t) ==
  LET s2 == t[2] + (t[1] \div B)
      s3 == t[3] + (s2 \div B)
      s4 == t[4] + (s3 \div B)
  IN  <<t[1] % B, s2 % B, s3 % B, s4>>

MagZero == <<0, 0, 0, 0>>

MagAdd(a, b) == Norm(<<a[1] + b[1], a[2] + b[2], a[3] + b[3], a[4] + b[4]>>)

\* a - b for a >= b
MagSub(a, b) == Norm(<<a[1] - b[1], a[2] - b[2], a[3] - b[3], a[4] - b[4]>>)

\* a * n for a small natural n
MagMulSmall(a, n) == Norm(<<a[1] * n, a[2] * n, a[3] * n, a[4] * n>>)

\* -1, 0, 1 as a < b, a = b, a > b
MagCmp(a, b) ==
  IF a[4] # b[4] THEN (IF a[4] < b[4] THEN -1 ELSE 1)
  ELSE IF a[3] # b[3] THEN (IF a[3] < b[3] THEN -1 ELSE 1)
  ELSE IF a[2] # b[2] THEN (IF a[2] < b[2] THEN -1 ELSE 1)
  ELSE IF a[1] # b[1] THEN (IF a[1] < b[1] THEN -1 ELSE 1)
  ELSE 0

\* floor(a / m) for a small positive m, and whether a remainder was dropped
MagDivSmall(a, m) ==
  LET q4 == a[4] \div m
      r4 == a[4] % m
      q3 == (r4 * B + a[3]) \div m
      r3 == (r4 * B + a[3]) % m
      q2 == (r3 * B + a[2]) \div m
      r2 == (r3 * B + a[2]) % m
      q1 == (r2 * B + a[1]) \div m
      r1 == (r2 * B + a[1]) % m
  IN  [mag |-> <<q1, q2, q3, q4>>, sticky |-> r1 # 0]

RECURSIVE Bits(_)
\* number of significant bits of a natural number
Bits(n) == IF n = 0 THEN 0 ELSE 1 + Bits(n \div 2)

BitLen(a) ==
  IF a[4] > 0 THEN 60 + Bits(a[4])
  ELSE IF a[3] > 0 THEN 40 + Bits(a[3])
  ELSE IF a[2] > 0 THEN 20 + Bits(a[2])
  ELSE Bits(a[1])

\* the magnitude 2^k units
Pow2Mag(k) == [i \in 1..4 |-> IF i = (k \div 20) + 1 THEN 2^(k % 20) ELSE 0]

\* Round an exact magnitude to 53 significant bits, to nearest, ties to
\* even; sticky says that the exact value lies strictly above the magnitude.
Round53(a, sticky) ==
  LET k == BitLen(a) - 53
  IN  IF k <= 0 THEN a
      ELSE
        LET j    == (k \div 20) + 1
            b    == k % 20
            kept == [i \in 1..4 |->
                       IF i < j THEN 0
                       ELSE IF i = j THEN a[i] - (a[i] % (2^b))
                       ELSE a[i]]
            c    == MagCmp(MagSub(a, kept), Pow2Mag(k - 1))
            odd  == ((a[j] \div (2^b)) % 2) = 1
            up   == c > 0 \/ (c = 0 /\ (sticky \/ odd))
        IN  IF up THEN MagAdd(kept, Pow2Mag(k)) ELSE kept

\* the Number n, for an integer n
Num(n) == [neg |-> n < 0, mag |-> <<0, 0, 0, IF n < 0 THEN -n ELSE n>>]

IsIntegral(x) == x.mag[1] = 0 /\ x.mag[2] = 0 /\ x.mag[3] = 0

FNeg(x) == [neg |-> ~x.neg, mag |-> x.mag]

\* x + y
FAdd(x, y) ==
  IF x.neg = y.neg
    THEN [neg |-> x.neg, mag |-> Round53(MagAdd(x.mag, y.mag), FALSE)]
    ELSE LET c == MagCmp(x.mag, y.mag)
         IN  IF c = 0 THEN [neg |-> FALSE, mag |-> MagZero]
             ELSE IF c > 0
               THEN [neg |-> x.neg, mag |-> Round53(MagSub(x.mag, y.mag), FALSE)]
               ELSE [neg |-> y.neg, mag |-> Round53(MagSub(y.mag, x.mag), FALSE)]

\* x - y
FSub(x, y) == FAdd(x, FNeg(y))

\* x * y, where one factor is an integer of small magnitude
FMul(x, y) ==
  LET n == IF IsIntegral(y) THEN y ELSE x
      f == IF IsIntegral(y) THEN x ELSE y
  IN  [neg |-> (x.neg # y.neg),
       mag |-> Round53(MagMulSmall(f.mag, n.mag[4]), FALSE)]

\* x / y, for an integral y of small magnitude
FDiv(x, y) ==
  LET q == MagDivSmall(x.mag, y.mag[4])
  IN  [neg |-> (x.neg # y.neg), mag |-> Round53(q.mag, q.sticky)]

\* x < y
FLess(x, y) ==
  IF x.neg # y.neg THEN x.neg /\ ~(x.mag = MagZero /\ y.mag = MagZero)
  ELSE IF x.neg THEN MagCmp(x.mag, y.mag) > 0
  ELSE MagCmp(x.mag, y.mag) < 0

\* x >= y
FGeq(x, y) == ~FLess(x, y)

\* Math.max(x, y), Math.min(x, y)
MathMax(x, y) == IF FLess(x, y) THEN y ELSE x
MathMin(x, y) == IF FLess(y, x) THEN y ELSE x

\* Math.abs left out: the signed difference
MathAbsDropped(n) == n

\* Math.abs on an integer
MathAbs(n) == IF n < 0 THEN -n ELSE n

\* Math.round(x): floor(x + 1/2) of the exact value, as an integer
MathRoundDown(x) == IF ~x.neg THEN x.mag[4] ELSE -x.mag[4]

MathRound(x) ==
  LET half == 2^19
      frac == x.mag[3]
      rest == x.mag[1] # 0 \/ x.mag[2] # 0
  IN  IF ~x.neg
        THEN x.mag[4] + (IF frac >= half THEN 1 ELSE 0)
        ELSE -(x.mag[4] + (IF frac > half \/ (frac = half /\ rest) THEN 1 ELSE 0))

(***************************************************************************)
(* lib/compatibility.ts                                                    *)
(***************************************************************************)

PLAYSTYLE_KEYS ==
  <<"shootVsDrive", "soloVsSquad", "defenseSkill", "reactionTiming",
    "offensiveStyle", "physicalPlay", "pacePreference", "consistencyVsHighRisk">>

DIMENSION_LABELS ==
  [shootVsDrive          |-> [low |-> "Drive style",       high |-> "Shooting style"],
   soloVsSquad           |-> [low |-> "Squad play",        high |-> "Solo play"],
   defenseSkill          |-> [low |-> "Offense focus",     high |-> "Defense focus"],
   reactionTiming        |-> [low |-> "Casual pace",       high |-> "Elite timing"],
   offensiveStyle        |-> [low |-> "Set plays",         high |-> "Freestyle offense"],
   physicalPlay          |-> [low |-> "Finesse",           high |-> "Physical"],
   pacePreference        |-> [low |-> "Slow & methodical", high |-> "Fast & aggressive"],
   consistencyVsHighRisk |-> [low |-> "Consistent",        high |-> "High-risk/reward"]]

\* A vector that may be null: items is read only when isNull is FALSE.
NullVec == [isNull |-> TRUE, items |-> <<>>]
Vec(items) == [isNull |-> FALSE, items |-> items]

\* A value that may be undefined: val is read only when def is TRUE.
Undefined == [def |-> FALSE, val |-> 0]
Defined(n) == [def |-> TRUE, val |-> n]

\* build.performance?.shooting
OptShooting(performance) ==
  IF performance.isNull \/ ~performance.shooting.def
    THEN Undefined
    ELSE performance.shooting

\* a || d on an optional number: undefined and 0 are falsy
OrElse(a, d) == IF ~a.def \/ a.val = 0 THEN d ELSE a.val

\* the template literal `${prefix}${name}`
Phrase(prefix, name) == <<prefix, name>>

\* slice with an inclusive end index
SliceInclusive(s, n) == SubSeq(s, 1, IF Len(s) < n + 1 THEN Len(s) ELSE n + 1)

\* s.slice(0, n)
Slice(s, n) == SubSeq(s, 1, IF Len(s) < n THEN Len(s) ELSE n)

\* the distance (diff / 9) * 100 in place of the similarity
DimScoreDistance(diff) == FMul(FDiv(Num(diff), Num(9)), Num(100))

\* (1 - diff / 9) * 100
DimScore(diff) == FMul(FSub(Num(1), FDiv(Num(diff), Num(9))), Num(100))

\* the loop body comparing position i of the user with the next position of
\* the build
LoopBodyShifted(acc, userVec, buildVec, i) ==
  LET diff     == MathAbs(userVec[i] - buildVec[(i % 8) + 1])
      dimScore == DimScore(diff)
      label    == DIMENSION_LABELS[PLAYSTYLE_KEYS[i]]
      val      == userVec[i]
  IN  [total |-> FAdd(acc.total, dimScore),
       alignedDimensions |->
         IF FGeq(dimScore, Num(75))
           THEN Append(acc.alignedDimensions,
                       IF val >= 5 THEN Phrase("Fits your ", label.high)
                                   ELSE Phrase("Fits your ", label.low))
           ELSE acc.alignedDimensions,
       misalignedDimensions |->
         IF ~FGeq(dimScore, Num(75)) /\ FLess(dimScore, Num(45))
           THEN Append(acc.misalignedDimensions,
                       IF val >= 5 THEN Phrase("Conflicts with your ", label.high)
                                   ELSE Phrase("Conflicts with your ", label.low))
           ELSE acc.misalignedDimensions]

\* the loop body with a weakness for every dimScore below 80, tested without
\* the else
LoopBodyOverlap(acc, userVec, buildVec, i) ==
  LET diff     == MathAbs(userVec[i] - buildVec[i])
      dimScore == DimScore(diff)
      label    == DIMENSION_LABELS[PLAYSTYLE_KEYS[i]]
      val      == userVec[i]
  IN  [total |-> FAdd(acc.total, dimScore),
       alignedDimensions |->
         IF FGeq(dimScore, Num(75))
           THEN Append(acc.alignedDimensions,
                       IF val >= 5 THEN Phrase("Fits your ", label.high)
                                   ELSE Phrase("Fits your ", label.low))
           ELSE acc.alignedDimensions,
       misalignedDimensions |->
         IF FLess(dimScore, Num(80))
           THEN Append(acc.misalignedDimensions,
                       IF val >= 5 THEN Phrase("Conflicts with your ", label.high)
                                   ELSE Phrase("Conflicts with your ", label.low))
           ELSE acc.misalignedDimensions]

\* the loop body choosing the high label of a strength for val > 5 only
LoopBodyStrictHigh(acc, userVec, buildVec, i) ==
  LET diff     == MathAbs(userVec[i] - buildVec[i])
      dimScore == DimScore(diff)
      label    == DIMENSION_LABELS[PLAYSTYLE_KEYS[i]]
      val      == userVec[i]
  IN  [total |-> FAdd(acc.total, dimScore),
       alignedDimensions |->
         IF FGeq(dimScore, Num(75))
           THEN Append(acc.alignedDimensions,
                       IF val > 5 THEN Phrase("Fits your ", label.high)
                                  ELSE Phrase("Fits your ", label.low))
           ELSE acc.alignedDimensions,
       misalignedDimensions |->
         IF ~FGeq(dimScore, Num(75)) /\ FLess(dimScore, Num(45))
           THEN Append(acc.misalignedDimensions,
                       IF val >= 5 THEN Phrase("Conflicts with your ", label.high)
                                   ELSE Phrase("Conflicts with your ", label.low))
           ELSE acc.misalignedDimensions]

\* The body of the loop for the dimension at index i (1..8 here, 0..7 in the
\* source), applied to the accumulators of the iterations before it.
LoopBody(acc, userVec, buildVec, i) ==
  LET diff     == MathAbs(userVec[i] - buildVec[i])
      dimScore == DimScore(diff)
      key      == PLAYSTYLE_KEYS[i]
      label    == DIMENSION_LABELS[key]
      val      == userVec[i]
  IN  [total |-> FAdd(acc.total, dimScore),
       alignedDimensions |->
         IF FGeq(dimScore, Num(75))
           THEN Append(acc.alignedDimensions,
                       IF val >= 5 THEN Phrase("Fits your ", label.high)
                                   ELSE Phrase("Fits your ", label.low))
           ELSE acc.alignedDimensions,
       misalignedDimensions |->
         IF ~FGeq(dimScore, Num(75)) /\ FLess(dimScore, Num(45))
           THEN Append(acc.misalignedDimensions,
                       IF val >= 5 THEN Phrase("Conflicts with your ", label.high)
                                   ELSE Phrase("Conflicts with your ", label.low))
           ELSE acc.misalignedDimensions]

RECURSIVE Loop(_, _, _)
\* the accumulators after the first n iterations
Loop(userVec, buildVec, n) ==
  IF n = 0
    THEN [total |-> Num(0), alignedDimensions |-> <<>>, misalignedDimensions |-> <<>>]
    ELSE LoopBody(Loop(userVec, buildVec, n - 1), userVec, buildVec, n)

\* the thresholds taken as exclusive lower bounds
LabelOfExclusive(score) ==
  IF score > 90 THEN "Perfect Match"
  ELSE IF score > 75 THEN "Great Match"
  ELSE IF score > 60 THEN "Good Match"
  ELSE IF score > 45 THEN "Moderate Match"
  ELSE "Poor Match"

\* the if / else-if chain on score
LabelOf(score) ==
  IF score >= 90 THEN "Perfect Match"
  ELSE IF score >= 75 THEN "Great Match"
  ELSE IF score >= 60 THEN "Good Match"
  ELSE IF score >= 45 THEN "Moderate Match"
  ELSE "Poor Match"

\* build.performance?.shooting || 50
ShootingUsed(performance) == OrElse(OptShooting(performance), 50)

\* the win boost without Math.max and Math.min
WinBoostUnclamped(score, performance) ==
  LET baseBoost == FMul(FDiv(Num(score - 50), Num(50)), Num(25))
      perfBoost == FMul(Num(ShootingUsed(performance) - 50), FDiv(Num(3), Num(10)))
  IN  MathRound(FAdd(baseBoost, perfBoost))

\* Math.round(Math.max(-15, Math.min(30, baseBoost + perfBoost)))
WinBoost(score, performance) ==
  LET baseBoost == FMul(FDiv(Num(score - 50), Num(50)), Num(25))
      perfBoost == FMul(Num(ShootingUsed(performance) - 50), FDiv(Num(3), Num(10)))
  IN  MathRound(MathMax(Num(-15), MathMin(Num(30), FAdd(baseBoost, perfBoost))))

FallbackResult ==
  [score |-> 70, label |-> "Good Match", strengths |-> <<>>, weaknesses |-> <<>>,
   predictedWinBoost |-> 5]

\* the scorer with a fallback for null and for too short vectors only
calcCompatibilityShortOnly(user, build) ==
  LET userVec  == user.playstyle_vector
      buildVec == build.build_vector
  IN  IF userVec.isNull \/ buildVec.isNull
         \/ Len(userVec.items) < 8 \/ Len(buildVec.items) < 8
        THEN FallbackResult
        ELSE
          LET acc   == Loop(userVec.items, buildVec.items, 8)
              score == MathRound(FDiv(acc.total, Num(8)))
          IN  [score |-> score,
               label |-> LabelOf(score),
               strengths |-> Slice(acc.alignedDimensions, 3),
               weaknesses |-> Slice(acc.misalignedDimensions, 2),
               predictedWinBoost |-> WinBoost(score, build.performance)]

calcCompatibility(user, build) ==
  LET userVec  == user.playstyle_vector
      buildVec == build.build_vector
  IN  IF userVec.isNull \/ buildVec.isNull
         \/ Len(userVec.items) # 8 \/ Len(buildVec.items) # 8
        THEN FallbackResult
        ELSE
          LET acc   == Loop(userVec.items, buildVec.items, 8)
              score == MathRound(FDiv(acc.total, Num(8)))
          IN  [score |-> score,
               label |-> LabelOf(score),
               strengths |-> Slice(acc.alignedDimensions, 3),
               weaknesses |-> Slice(acc.misalignedDimensions, 2),
               predictedWinBoost |-> WinBoost(score, build.performance)]

\* `vec.length`: reading a property of null raises a TypeError
LengthReadThrows(vec) == vec.isNull

\* `build.performance.shooting` without the optional chaining
ShootingReadThrowsPlainDot(performance) == performance.isNull

\* `build.performance?.shooting` yields undefined for a missing record
ShootingReadThrows(performance) == FALSE

\* Whether calcCompatibility(user, build) raises: the guard `!userVec ||
\* !buildVec || userVec.length !== 8 || buildVec.length !== 8` is evaluated
\* from the left and stops at the first true operand; past the guard the only
\* property read on a value that may be missing is that of the shooting.
Throws(user, build) ==
  LET userVec  == user.playstyle_vector
      buildVec == build.build_vector
  IN  IF userVec.isNull \/ buildVec.isNull THEN FALSE
      ELSE IF LengthReadThrows(userVec) THEN TRUE
      ELSE IF Len(userVec.items) # 8 THEN FALSE
      ELSE IF LengthReadThrows(buildVec) THEN TRUE
      ELSE IF Len(buildVec.items) # 8 THEN FALSE
      ELSE ShootingReadThrows(build.performance)

(***************************************************************************)
(* The inputs of a call: a user, a build, and the result of the call.      *)
(***************************************************************************)

VARIABLES user, build, compat, pc

\* The marketplace API: the database, the payment processor, the deployment,
\* the requests in flight, the last response and the number of requests made.
VARIABLES db, stripe, env, reqs, resp, sent

vars == <<user, build, compat, pc, db, stripe, env, reqs, resp, sent>>

\* How many vectors of BuyerPool the users draw their playstyle vector from.
NumBuyers == 4

\* Vectors of a wrong length have 0 or 8 - LenSlack .. 8 + LenSlack entries.
LenSlack == 1

\* The shooting percentages are the ShootingGrid + 1 grid points of 0..100.
ShootingGrid == 10

BuyerPool ==
  << <<1, 1, 1, 1, 1, 1, 1, 1>>,
     <<10, 10, 10, 10, 10, 10, 10, 10>>,
     <<5, 5, 5, 5, 5, 5, 5, 5>>,
     <<1, 10, 4, 5, 6, 3, 8, 2>>,
     <<3, 7, 2, 9, 5, 4, 10, 1>>,
     <<6, 6, 2, 8, 1, 9, 4, 7>> >>

Buyers ==
  {BuyerPool[n] : n \in 1..(IF NumBuyers < Len(BuyerPool) THEN NumBuyers ELSE Len(BuyerPool))}

\* the build vectors: k entries a, then 8 - k entries b
TwoBlock(a, b, k) == [i \in 1..8 |-> IF i <= k THEN a ELSE b]

Builds == {TwoBlock(a, b, k) : a \in 1..10, b \in 1..10, k \in 0..8}

BadLens == ({0} \cup ((8 - LenSlack)..(8 + LenSlack))) \ {8}

\* null, and the vectors of a wrong length
BadVecs == {NullVec} \cup {Vec([i \in 1..n |-> 1 + (i % 10)]) : n \in BadLens}

ShootingValues == {(100 * k) \div ShootingGrid : k \in 0..ShootingGrid}

\* no performance record, a record without shooting, a record with shooting
Performances ==
  {[isNull |-> TRUE, shooting |-> Undefined], [isNull |-> FALSE, shooting |-> Undefined]}
  \cup {[isNull |-> FALSE, shooting |-> Defined(n)] : n \in ShootingValues}

IsValidVec(v) ==
  /\ ~v.isNull
  /\ Len(v.items) = 8
  /\ \A i \in 1..8 : v.items[i] \in 1..10

\* buyers at the ends of every scale
ExtremeBuyers == {<<1, 10, 1, 10, 10, 1, 10, 1>>, <<10, 10, 1, 1, 10, 1, 1, 10>>}

\* the vector at the other end of every scale
Mirror(v) == [i \in 1..8 |-> 11 - v[i]]

UserVecs == {Vec(v) : v \in Buyers \cup ExtremeBuyers} \cup BadVecs

\* A buyer of the pool meets every build vector, its own vector and the
\* mirror of it; every other user meets a few vectors.
BuildVecsFor(u) ==
  IF IsValidVec(u) /\ u.items \in Buyers
    THEN {Vec(v) : v \in Builds \cup {u.items, Mirror(u.items)}} \cup BadVecs
  ELSE IF IsValidVec(u)
    THEN {Vec(v) : v \in Buyers \cup {u.items, Mirror(u.items)}} \cup BadVecs
  ELSE {Vec(v) : v \in Buyers} \cup BadVecs

NoCompat ==
  [score |-> 0, label |-> "", strengths |-> <<>>, weaknesses |-> <<>>,
   predictedWinBoost |-> 0]

(***************************************************************************)
(* The tables of the marketplace API.                                       *)
(***************************************************************************)

\* How many build titles the sellers choose from.
NumBuilds == 1

\* The seed list is cut to its first NumSeedBuilds entries, and to the titles
\* the sellers choose from.
NumSeedBuilds == 1

\* How many requests are made in all, and how many are in flight at once.
MaxRequests == 4

MaxInFlight == 2

\* How many payment intents the processor holds.
MaxIntents == 1
MaxFlags == 2
MaxPurchases == 2
MaxViews == 1

\* the platform's share of a price, in percent
PLATFORM_FEE == 30

UserIds == {"admin", "u1", "u2"}

\* signup gives every user the role 'buyer'; "admin" was made an admin in the
\* database
RoleOf(userId) == IF userId = "admin" THEN "admin" ELSE "buyer"

\* the verified token of a request
JWTPayload(userId) == [userId |-> userId, role |-> RoleOf(userId)]

\* the prices of the seed list, in cents
seedBuilds == <<499, 399, 499, 399, 449>>

\* A build is identified by its title, which the upsert of the seed takes as
\* unique: the first ids carry the titles of the seed list, which a seller
\* may choose as well.
BuildIds == 1..NumBuilds

\* view_count of the five seed builds
seedViewCounts == <<412, 287, 198, 155, 102>>

SeedIds == {b \in BuildIds : b <= NumSeedBuilds /\ b <= Len(seedBuilds)}

\* prices a seller sets, in cents (1.00 to 10.00)
Prices == {499}

\* status_by records the role of the request that wrote `status`
NoBuild ==
  [exists |-> FALSE, seller_id |-> "", status |-> "", price |-> 0, status_by |-> ""]

BuildRow(seller_id, status, price, role) ==
  [exists |-> TRUE, seller_id |-> seller_id, status |-> status, price |-> price,
   status_by |-> role]

\* what a build is posted with and only its buyers are to see: two
\* attributes, one badge
Content(tag) ==
  [description |-> <<"description", tag>>,
   attributes  |-> <<"Speed", tag>>,
   badges      |-> <<tag>>,
   import_code |-> <<"import_code", tag>>,
   height_in   |-> <<"height_in", tag>>,
   weight_lbs  |-> <<"weight_lbs", tag>>]

\* the contents of the seed list and of the sellers' builds
Contents == {Content("seed"), Content("a"), Content("b")}

\* `featured` with the role of the request that wrote it
NotFeatured == [value |-> FALSE, by |-> ""]

\* The tables: builds (with the columns featured, view_count and the content
\* columns kept apart from the rows), purchases, users, reviews and
\* moderation_flags.
EmptyDb ==
  [builds     |-> [b \in BuildIds |-> NoBuild],
   purchases  |-> <<>>,
   users      |-> [u \in UserIds |-> [total_spent |-> 0, total_earnings |-> 0]],
   featured   |-> [b \in BuildIds |-> NotFeatured],
   view_count |-> [b \in BuildIds |-> 0],
   content    |-> [b \in BuildIds |-> Content("a")],
   reviews    |-> <<>>,
   flags      |-> <<>>]

\* payment_intent_id of a confirm request: absent, 'demo_...', or the id of
\* an intent (an id the processor does not hold is unknown to it)
PiAbsent == [kind |-> "absent", id |-> 0]

PiDemo == [kind |-> "demo", id |-> 0]

PiId(i) == [kind |-> "id", id |-> i]

PaymentIntentIds == {PiAbsent, PiDemo} \cup {PiId(i) : i \in 1..MaxIntents}

NoStatus == ""

\* bodies of PUT /builds/:id: any JSON object; its status and price fields
PutBodies ==
  {[status |-> "active", price |-> 0], [status |-> NoStatus, price |-> 499]}

\* a slot without a request; `wrote` and `repeated` record whether the request
\* has written to the database and whether the buyer had a purchase of the
\* build when it arrived; `retrieved` is the intent it got from the processor
Idle ==
  [kind |-> "idle", pc |-> "", user |-> JWTPayload("admin"), id |-> 0,
   body |-> [status |-> NoStatus, price |-> 0], build |-> NoBuild,
   pi |-> PiAbsent, retrieved |-> 0, wrote |-> FALSE, repeated |-> FALSE,
   purchase_id |-> 0, rating |-> 0]

\* the last response: its status code and error message, with `wrote` and
\* `repeated` of the request it answers
NoResp ==
  [code |-> 0, error |-> "", wrote |-> FALSE, repeated |-> FALSE,
   data |-> [kind |-> "none"]]

\* the marketplace before any request, on a given deployment
InitBackend(e) ==
  /\ db = EmptyDb
  /\ stripe = <<>>
  /\ env = e
  /\ reqs = [s \in 1..MaxInFlight |-> Idle]
  /\ resp = NoResp
  /\ sent = 0

\* the deployment the buyer's screen of the scorer runs against
NoEnv == [hasValidStripeKey |-> FALSE, purchasesUnique |-> FALSE]

Init ==
  /\ InitBackend(NoEnv)
  /\ user \in {[playstyle_vector |-> u] : u \in UserVecs}
  /\ build \in {[build_vector |-> v, performance |-> p] :
                   v \in BuildVecsFor(user.playstyle_vector), p \in Performances}
  /\ compat = NoCompat
  /\ pc = "idle"

\* const compat = calcCompatibility(user, build): the call returns a result or
\* raises
Call ==
  /\ pc = "idle"
  /\ IF Throws(user, build)
       THEN compat' = NoCompat /\ pc' = "threw"
       ELSE compat' = calcCompatibility(user, build) /\ pc' = "done"
  /\ UNCHANGED <<user, build, db, stripe, env, reqs, resp, sent>>

Next == Call

Spec == Init /\ [][Next]_vars

(***************************************************************************)
(* The handlers of the marketplace API.  A handler runs up to its next     *)
(* `await` of the database or of the payment processor in one step; the    *)
(* steps of different requests interleave.                                  *)
(***************************************************************************)

scorerVars == <<user, build, compat, pc>>

\* the rows of purchases of a buyer and a build
PurchasesOf(buyer_id, build_id) ==
  {i \in 1..Len(db.purchases) :
     db.purchases[i].buyer_id = buyer_id /\ db.purchases[i].build_id = build_id}

\* .single() yields data only when exactly one row matches
SingleHasData(rows) == Cardinality(rows) = 1

DuplicateKey == "duplicate key value violates unique constraint"

NoRows == "JSON object requested, multiple (or no) rows returned"

FreeSlots == {s \in 1..MaxInFlight : reqs[s].kind = "idle"}

FreeSlot == CHOOSE s \in FreeSlots : \A t \in FreeSlots : s <= t

CanSend == sent < MaxRequests /\ FreeSlots # {}

\* the response of a handler that answers in its first step
Respond(code, error, wrote, repeated) ==
  resp' = [code |-> code, error |-> error, wrote |-> wrote, repeated |-> repeated,
           data |-> NoResp.data]

\* a handler goes on to its next await
Await(kind, pcNext, userId, id, body, row, pi, repeated) ==
  reqs' = [reqs EXCEPT ![FreeSlot] =
             [Idle EXCEPT !.kind = kind, !.pc = pcNext, !.user = JWTPayload(userId),
                          !.id = id, !.body = body, !.build = row, !.pi = pi,
                          !.repeated = repeated]]

\* the request of slot s answers
Finish(s, code, error, wrote) ==
  /\ reqs' = [reqs EXCEPT ![s] = Idle]
  /\ resp' = [code |-> code, error |-> error, wrote |-> wrote,
              repeated |-> reqs[s].repeated, data |-> NoResp.data]

\* POST /builds
PostBuild(userId, id, price) ==
  /\ CanSend
  /\ sent' = sent + 1
  /\ IF db.builds[id].exists
       THEN /\ Respond(400, DuplicateKey, FALSE, FALSE)
            /\ UNCHANGED db
       ELSE /\ db' = [db EXCEPT
                        !.builds[id] = BuildRow(userId, "pending", price, RoleOf(userId)),
                        !.content[id] = Content("a"),
                        !.featured[id] = NotFeatured,
                        !.view_count[id] = 0]
            /\ Respond(201, "", TRUE, FALSE)
  /\ UNCHANGED <<stripe, env, reqs, scorerVars>>

\* PUT /builds/:id, up to the update
PutStart(userId, id, body) ==
  /\ CanSend
  /\ sent' = sent + 1
  /\ LET u == JWTPayload(userId)
         b == db.builds[id]
     IN  IF ~b.exists
           THEN /\ Respond(404, "Build not found", FALSE, FALSE)
                /\ UNCHANGED reqs
         ELSE IF b.seller_id # u.userId /\ u.role # "admin"
           THEN /\ Respond(403, "Forbidden", FALSE, FALSE)
                /\ UNCHANGED reqs
         ELSE /\ Await("PUT /builds/:id", "update", userId, id, body, NoBuild, PiAbsent, FALSE)
              /\ UNCHANGED resp
  /\ UNCHANGED <<db, stripe, env, scorerVars>>

\* the fields of the body overwrite those of the row
UpdateBuild(b, body, role) ==
  [b EXCEPT
     !.status = IF body.status # NoStatus THEN body.status ELSE @,
     !.status_by = IF body.status # NoStatus THEN role ELSE @,
     !.price = IF body.price # 0 THEN body.price ELSE @]

\* PUT /builds/:id: the update and the answer
PutUpdate(s) ==
  /\ reqs[s].kind = "PUT /builds/:id"
  /\ reqs[s].pc = "update"
  /\ LET r == reqs[s]
         b == db.builds[r.id]
     IN  IF ~b.exists
           THEN /\ Finish(s, 400, NoRows, FALSE)
                /\ UNCHANGED db
           ELSE /\ db' = [db EXCEPT !.builds[r.id] = UpdateBuild(b, r.body, r.user.role)]
                /\ Finish(s, 200, "", TRUE)
  /\ UNCHANGED <<stripe, env, sent, scorerVars>>

adminMiddlewarePassesAll(userId) == TRUE

\* adminMiddleware lets a request through when the role of its token is 'admin'
adminMiddleware(userId) == RoleOf(userId) = "admin"

\* POST /admin/builds/:id/approve
Approve(userId, id) ==
  /\ CanSend
  /\ sent' = sent + 1
  /\ IF ~adminMiddleware(userId)
       THEN /\ Respond(403, "Forbidden", FALSE, FALSE)
            /\ UNCHANGED db
     ELSE IF ~db.builds[id].exists
       THEN /\ Respond(404, "Not found", FALSE, FALSE)
            /\ UNCHANGED db
     ELSE /\ db' = [db EXCEPT !.builds[id].status = "active",
                              !.builds[id].status_by = RoleOf(userId)]
          /\ Respond(200, "", TRUE, FALSE)
  /\ UNCHANGED <<stripe, env, reqs, scorerVars>>

\* POST /admin/builds/:id/reject
Reject(userId, id) ==
  /\ CanSend
  /\ sent' = sent + 1
  /\ IF ~adminMiddleware(userId)
       THEN /\ Respond(403, "Forbidden", FALSE, FALSE)
            /\ UNCHANGED db
     ELSE IF ~db.builds[id].exists
       THEN /\ Respond(200, "", FALSE, FALSE)
            /\ UNCHANGED db
     ELSE /\ db' = [db EXCEPT !.builds[id].status = "rejected",
                              !.builds[id].status_by = RoleOf(userId)]
          /\ Respond(200, "", TRUE, FALSE)
  /\ UNCHANGED <<stripe, env, reqs, scorerVars>>

\* POST /admin/seed: the upserts write the rows of the seeded titles and read
\* nothing, and are taken as one step
Seed(userId) ==
  /\ CanSend
  /\ sent' = sent + 1
  /\ IF ~adminMiddleware(userId)
       THEN /\ Respond(403, "Forbidden", FALSE, FALSE)
            /\ UNCHANGED db
       ELSE /\ db' = [db EXCEPT
                        !.builds = [b \in BuildIds |->
                           IF b \in SeedIds
                             THEN BuildRow(userId, "active", seedBuilds[b], RoleOf(userId))
                             ELSE @[b]],
                        !.content = [b \in BuildIds |->
                           IF b \in SeedIds THEN Content("seed") ELSE @[b]],
                        !.featured = [b \in BuildIds |->
                           IF b \in SeedIds /\ b = 1
                             THEN [value |-> TRUE, by |-> RoleOf(userId)] ELSE @[b]],
                        !.view_count = [b \in BuildIds |->
                           IF b \in SeedIds THEN seedViewCounts[b] ELSE @[b]]]
            /\ Respond(200, "", TRUE, FALSE)
  /\ UNCHANGED <<stripe, env, reqs, scorerVars>>

\* POST /builds/:id/checkout, up to the query of the buyer's purchases
CheckoutStart(userId, id) ==
  /\ CanSend
  /\ sent' = sent + 1
  /\ LET b == db.builds[id]
         repeated == PurchasesOf(userId, id) # {}
     IN  IF ~b.exists
           THEN /\ Respond(404, "Build not found", FALSE, repeated)
                /\ UNCHANGED reqs
         ELSE IF b.status # "active"
           THEN /\ Respond(400, "Build is not available", FALSE, repeated)
                /\ UNCHANGED reqs
         ELSE IF b.seller_id = userId
           THEN /\ Respond(400, "Cannot buy your own build", FALSE, repeated)
                /\ UNCHANGED reqs
         ELSE /\ Await("checkout", "alreadyPurchased", userId, id,
                       Idle.body, b, PiAbsent, repeated)
              /\ UNCHANGED resp
  /\ UNCHANGED <<db, stripe, env, scorerVars>>

\* checkout: alreadyPurchased, then the choice between demo mode and Stripe
CheckoutAlreadyPurchased(s) ==
  /\ reqs[s].kind = "checkout"
  /\ reqs[s].pc = "alreadyPurchased"
  /\ IF SingleHasData(PurchasesOf(reqs[s].user.userId, reqs[s].id))
       THEN Finish(s, 400, "Already purchased", FALSE)
       ELSE /\ reqs' = [reqs EXCEPT ![s].pc =
                          IF env.hasValidStripeKey THEN "createIntent" ELSE "insert"]
            /\ UNCHANGED resp
  /\ UNCHANGED <<db, stripe, env, sent, scorerVars>>

\* the purchase a request inserts; `retrieved` is the intent the request
\* retrieved with status 'succeeded', 0 when it retrieved none
PurchaseRow(r) ==
  [buyer_id |-> r.user.userId, build_id |-> r.id, seller_id |-> r.build.seller_id,
   amount |-> r.build.price,
   platform_fee |-> r.build.price * PLATFORM_FEE,
   seller_payout |-> r.build.price * (100 - PLATFORM_FEE),
   stripe_payment_intent_id |-> r.pi, status |-> "completed",
   retrieved |-> r.retrieved]

\* the insert is refused when the table has a unique index on buyer and build
\* and the buyer has a row of the build, and when the build_id it refers to is
\* of no row of builds
InsertFails(row) ==
  \/ env.purchasesUnique /\ PurchasesOf(row.buyer_id, row.build_id) # {}
  \/ ~db.builds[row.build_id].exists

\* checkout in demo mode: the insert, whose error is not looked at
CheckoutInsert(s) ==
  /\ reqs[s].kind = "checkout"
  /\ reqs[s].pc = "insert"
  /\ LET row == PurchaseRow(reqs[s])
     IN  IF InsertFails(row)
           THEN /\ reqs' = [reqs EXCEPT ![s].pc = "sold"]
                /\ UNCHANGED db
           ELSE /\ reqs' = [reqs EXCEPT ![s].pc = "sold", ![s].wrote = TRUE]
                /\ db' = [db EXCEPT !.purchases = Append(@, row)]
  /\ UNCHANGED <<stripe, env, resp, sent, scorerVars>>

\* the build of the request is marked sold
MarkSold(r) ==
  IF db.builds[r.id].exists
    THEN [db EXCEPT !.builds[r.id].status = "sold",
                    !.builds[r.id].status_by = r.user.role]
    ELSE db

\* checkout in demo mode: the build is marked sold and the request answers
CheckoutSold(s) ==
  /\ reqs[s].kind = "checkout"
  /\ reqs[s].pc = "sold"
  /\ db' = MarkSold(reqs[s])
  /\ Finish(s, 200, "", TRUE)
  /\ UNCHANGED <<stripe, env, sent, scorerVars>>

\* checkout with a Stripe key: the payment intent is created
CheckoutCreateIntent(s) ==
  /\ reqs[s].kind = "checkout"
  /\ reqs[s].pc = "createIntent"
  /\ Len(stripe) < MaxIntents
  /\ stripe' = Append(stripe, [buildId |-> reqs[s].id, buyerId |-> reqs[s].user.userId,
                               status |-> "requires_payment_method"])
  /\ Finish(s, 200, "", FALSE)
  /\ UNCHANGED <<db, env, sent, scorerVars>>

\* the buyer pays an intent with its client secret
StripePay(i) ==
  /\ i \in 1..Len(stripe)
  /\ stripe[i].status = "requires_payment_method"
  /\ stripe' = [stripe EXCEPT ![i].status = "succeeded"]
  /\ UNCHANGED <<db, env, reqs, resp, sent, scorerVars>>

\* POST /builds/:id/purchase/confirm, up to the retrieval or the insert
ConfirmStart(userId, id, pi) ==
  /\ CanSend
  /\ sent' = sent + 1
  /\ LET b == db.builds[id]
         repeated == PurchasesOf(userId, id) # {}
     IN  IF ~b.exists
           THEN /\ Respond(404, "Build not found", FALSE, repeated)
                /\ UNCHANGED reqs
           ELSE /\ Await("confirm",
                         IF pi.kind = "id" THEN "retrieve" ELSE "insert",
                         userId, id, Idle.body, b, pi, repeated)
                /\ UNCHANGED resp
  /\ UNCHANGED <<db, stripe, env, scorerVars>>

\* confirm: the intent is retrieved; an id unknown to Stripe raises
ConfirmRetrieve(s) ==
  /\ reqs[s].kind = "confirm"
  /\ reqs[s].pc = "retrieve"
  /\ LET i == reqs[s].pi.id
     IN  IF i > Len(stripe)
           THEN Finish(s, 500, "Internal Server Error", FALSE)
         ELSE IF stripe[i].status # "succeeded"
           THEN Finish(s, 400, "Payment not completed", FALSE)
         ELSE /\ reqs' = [reqs EXCEPT ![s].pc = "insert", ![s].retrieved = i]
              /\ UNCHANGED resp
  /\ UNCHANGED <<db, stripe, env, sent, scorerVars>>

\* confirm: the insert of the purchase
ConfirmInsert(s) ==
  /\ reqs[s].kind = "confirm"
  /\ reqs[s].pc = "insert"
  /\ LET row == PurchaseRow(reqs[s])
     IN  IF InsertFails(row)
           THEN /\ Finish(s, 400, DuplicateKey, FALSE)
                /\ UNCHANGED db
           ELSE /\ reqs' = [reqs EXCEPT ![s].pc = "sold", ![s].wrote = TRUE]
                /\ db' = [db EXCEPT !.purchases = Append(@, row)]
                /\ UNCHANGED resp
  /\ UNCHANGED <<stripe, env, sent, scorerVars>>

\* confirm: the build is marked sold
ConfirmSold(s) ==
  /\ reqs[s].kind = "confirm"
  /\ reqs[s].pc = "sold"
  /\ db' = MarkSold(reqs[s])
  /\ reqs' = [reqs EXCEPT ![s].pc = "total_spent"]
  /\ UNCHANGED <<stripe, env, resp, sent, scorerVars>>

\* confirm: total_spent of the buyer is set to the price
ConfirmTotalSpent(s) ==
  /\ reqs[s].kind = "confirm"
  /\ reqs[s].pc = "total_spent"
  /\ db' = [db EXCEPT !.users[reqs[s].user.userId].total_spent = reqs[s].build.price]
  /\ reqs' = [reqs EXCEPT ![s].pc = "total_earnings"]
  /\ UNCHANGED <<stripe, env, resp, sent, scorerVars>>

\* confirm: total_earnings of the seller is set to the payout, and the request
\* answers with the purchase
ConfirmTotalEarnings(s) ==
  /\ reqs[s].kind = "confirm"
  /\ reqs[s].pc = "total_earnings"
  /\ db' = [db EXCEPT !.users[reqs[s].build.seller_id].total_earnings =
                         reqs[s].build.price * (100 - PLATFORM_FEE)]
  /\ Finish(s, 200, "", TRUE)
  /\ UNCHANGED <<stripe, env, sent, scorerVars>>

\* the deployments: a Stripe key that is valid or not, a purchases table with
\* or without a unique index on buyer and build
Envs == [hasValidStripeKey : BOOLEAN, purchasesUnique : BOOLEAN]

\* the buyer's screen is closed while the API is observed
InitApi ==
  /\ \E e \in Envs : InitBackend(e)
  /\ user = [playstyle_vector |-> NullVec]
  /\ build = [build_vector |-> NullVec,
              performance |-> [isNull |-> TRUE, shooting |-> Undefined]]
  /\ compat = NoCompat
  /\ pc = "closed"

NextApi ==
  \/ \E u \in UserIds, id \in BuildIds, price \in Prices : PostBuild(u, id, price)
  \/ \E u \in UserIds, id \in BuildIds, body \in PutBodies : PutStart(u, id, body)
  \/ \E s \in 1..MaxInFlight : PutUpdate(s)
  \/ \E u \in UserIds, id \in BuildIds : Approve(u, id)
  \/ \E u \in UserIds, id \in BuildIds : Reject(u, id)
  \/ \E u \in UserIds : Seed(u)
  \/ \E u \in UserIds, id \in BuildIds : CheckoutStart(u, id)
  \/ \E s \in 1..MaxInFlight : CheckoutAlreadyPurchased(s)
  \/ \E s \in 1..MaxInFlight : CheckoutInsert(s)
  \/ \E s \in 1..MaxInFlight : CheckoutSold(s)
  \/ \E s \in 1..MaxInFlight : CheckoutCreateIntent(s)
  \/ \E i \in 1..MaxIntents : StripePay(i)
  \/ \E u \in UserIds, id \in BuildIds, pi \in PaymentIntentIds : ConfirmStart(u, id, pi)
  \/ \E s \in 1..MaxInFlight : ConfirmRetrieve(s)
  \/ \E s \in 1..MaxInFlight : ConfirmInsert(s)
  \/ \E s \in 1..MaxInFlight : ConfirmSold(s)
  \/ \E s \in 1..MaxInFlight : ConfirmTotalSpent(s)
  \/ \E s \in 1..MaxInFlight : ConfirmTotalEarnings(s)

SpecApi == InitApi /\ [][NextApi]_vars

(***************************************************************************)
(* Deleting a build.                                                       *)
(***************************************************************************)

\* the rows of purchases that refer to a build
PurchasesOfBuild(build_id) ==
  {i \in 1..Len(db.purchases) : db.purchases[i].build_id = build_id}

\* DELETE refuses a build whose status it read as 'sold'
DeleteGuard(b) == b.status = "sold"

\* DELETE /builds/:id, up to the delete
DeleteStart(userId, id) ==
  /\ CanSend
  /\ sent' = sent + 1
  /\ LET u == JWTPayload(userId)
         b == db.builds[id]
     IN  IF ~b.exists
           THEN /\ Respond(404, "Build not found", FALSE, FALSE)
                /\ UNCHANGED reqs
         ELSE IF b.seller_id # u.userId /\ u.role # "admin"
           THEN /\ Respond(403, "Forbidden", FALSE, FALSE)
                /\ UNCHANGED reqs
         ELSE IF DeleteGuard(b)
           THEN /\ Respond(400, "Cannot delete sold build", FALSE, FALSE)
                /\ UNCHANGED reqs
         ELSE /\ Await("DELETE /builds/:id", "delete", userId, id, Idle.body, b,
                       PiAbsent, FALSE)
              /\ UNCHANGED resp
  /\ UNCHANGED <<db, stripe, env, scorerVars>>

RECURSIVE WithoutBuild(_, _)
\* the rows that stay when those of a build go with it
WithoutBuild(rows, build_id) ==
  IF rows = <<>> THEN <<>>
  ELSE IF Head(rows).build_id = build_id THEN WithoutBuild(Tail(rows), build_id)
  ELSE <<Head(rows)>> \o WithoutBuild(Tail(rows), build_id)

\* DELETE /builds/:id: the delete, whose error is not looked at, and the
\* answer.  purchases.build_id refers to builds.id; what the database does
\* with the purchases of a deleted build is the deployment's: it refuses the
\* delete ("restrict") or deletes them too ("cascade").
DeleteRow(s) ==
  /\ reqs[s].kind = "DELETE /builds/:id"
  /\ reqs[s].pc = "delete"
  /\ LET id == reqs[s].id
     IN  IF ~db.builds[id].exists
           THEN /\ UNCHANGED db
                /\ Finish(s, 200, "", FALSE)
         ELSE IF env.onDeleteBuild = "restrict" /\ PurchasesOfBuild(id) # {}
           THEN /\ UNCHANGED db
                /\ Finish(s, 200, "", FALSE)
         ELSE /\ db' = [db EXCEPT !.builds[id] = NoBuild,
                                  !.purchases = WithoutBuild(@, id),
                                  !.reviews = WithoutBuild(@, id),
                                  !.flags = WithoutBuild(@, id)]
              /\ Finish(s, 200, "", TRUE)
  /\ UNCHANGED <<stripe, env, sent, scorerVars>>

\* the deployments of the builds table
BuildEnvs ==
  [hasValidStripeKey : {FALSE}, purchasesUnique : BOOLEAN,
   onDeleteBuild : {"restrict", "cascade"}]

InitBuilds ==
  /\ \E e \in BuildEnvs : InitBackend(e)
  /\ user = [playstyle_vector |-> NullVec]
  /\ build = [build_vector |-> NullVec,
              performance |-> [isNull |-> TRUE, shooting |-> Undefined]]
  /\ compat = NoCompat
  /\ pc = "closed"

\* sellers post, edit and delete builds while buyers confirm purchases
NextBuilds ==
  \/ \E u \in UserIds, id \in BuildIds, price \in Prices : PostBuild(u, id, price)
  \/ \E u \in UserIds, id \in BuildIds, body \in PutBodies : PutStart(u, id, body)
  \/ \E s \in 1..MaxInFlight : PutUpdate(s)
  \/ \E u \in UserIds, id \in BuildIds : DeleteStart(u, id)
  \/ \E s \in 1..MaxInFlight : DeleteRow(s)
  \/ \E u \in UserIds, id \in BuildIds : ConfirmStart(u, id, PiDemo)
  \/ \E s \in 1..MaxInFlight : ConfirmInsert(s)
  \/ \E s \in 1..MaxInFlight : ConfirmSold(s)
  \/ \E s \in 1..MaxInFlight : ConfirmTotalSpent(s)
  \/ \E s \in 1..MaxInFlight : ConfirmTotalEarnings(s)

SpecBuilds == InitBuilds /\ [][NextBuilds]_vars

(***************************************************************************)
(* Reviews.                                                                *)
(***************************************************************************)

\* the ratings reviewSchema lets through, at their ends
Ratings == {1, 5}

\* a purchase's id is its place in the table; requests also name ids of no row
PurchaseIds == 1..MaxRequests

\* the rows of reviews of a buyer and a build
ReviewsOf(buyer_id, build_id) ==
  {i \in 1..Len(db.reviews) :
     db.reviews[i].buyer_id = buyer_id /\ db.reviews[i].build_id = build_id}

\* the purchase of that id, of the requester, of the build
VerifyPurchase(purchase_id, userId, id) ==
  SingleHasData({i \in PurchasesOf(userId, id) : i = purchase_id})

\* POST /builds/:id/reviews, up to the look for an earlier review
ReviewStart(userId, id, purchase_id, rating) ==
  /\ CanSend
  /\ sent' = sent + 1
  /\ IF ~VerifyPurchase(purchase_id, userId, id)
       THEN /\ Respond(403, "No valid purchase found", FALSE, FALSE)
            /\ UNCHANGED reqs
       ELSE /\ reqs' = [reqs EXCEPT ![FreeSlot] =
                         [Idle EXCEPT !.kind = "POST /builds/:id/reviews",
                                      !.pc = "existing",
                                      !.user = JWTPayload(userId), !.id = id,
                                      !.purchase_id = purchase_id,
                                      !.rating = rating]]
            /\ UNCHANGED resp
  /\ UNCHANGED <<db, stripe, env, scorerVars>>

\* reviews: the look for a review of the buyer and the build
ReviewExisting(s) ==
  /\ reqs[s].kind = "POST /builds/:id/reviews"
  /\ reqs[s].pc = "existing"
  /\ IF SingleHasData(ReviewsOf(reqs[s].user.userId, reqs[s].id))
       THEN Finish(s, 400, "Already reviewed", FALSE)
       ELSE /\ reqs' = [reqs EXCEPT ![s].pc = "insert"]
            /\ UNCHANGED resp
  /\ UNCHANGED <<db, stripe, env, sent, scorerVars>>

\* reviews: the insert, refused when the table has a unique index on buyer
\* and build and the buyer has a review of the build
ReviewInsert(s) ==
  /\ reqs[s].kind = "POST /builds/:id/reviews"
  /\ reqs[s].pc = "insert"
  /\ LET r == reqs[s]
     IN  IF \/ env.reviewsUnique /\ ReviewsOf(r.user.userId, r.id) # {}
            \/ ~db.builds[r.id].exists
           THEN /\ Finish(s, 400, DuplicateKey, FALSE)
                /\ UNCHANGED db
           ELSE /\ db' = [db EXCEPT !.reviews =
                            Append(@, [build_id |-> r.id, buyer_id |-> r.user.userId,
                                       purchase_id |-> r.purchase_id,
                                       rating |-> r.rating])]
                /\ Finish(s, 201, "", TRUE)
  /\ UNCHANGED <<stripe, env, sent, scorerVars>>

\* the deployments of the reviews table
ReviewEnvs ==
  [hasValidStripeKey : {FALSE}, purchasesUnique : BOOLEAN, reviewsUnique : BOOLEAN]

InitReviews ==
  /\ \E e \in ReviewEnvs : InitBackend(e)
  /\ user = [playstyle_vector |-> NullVec]
  /\ build = [build_vector |-> NullVec,
              performance |-> [isNull |-> TRUE, shooting |-> Undefined]]
  /\ compat = NoCompat
  /\ pc = "closed"

\* buyers confirm purchases and review what they bought
NextReviews ==
  \/ \E u \in UserIds, id \in BuildIds, price \in Prices : PostBuild(u, id, price)
  \/ \E u \in UserIds, id \in BuildIds : ConfirmStart(u, id, PiDemo)
  \/ \E s \in 1..MaxInFlight : ConfirmInsert(s)
  \/ \E s \in 1..MaxInFlight : ConfirmSold(s)
  \/ \E s \in 1..MaxInFlight : ConfirmTotalSpent(s)
  \/ \E s \in 1..MaxInFlight : ConfirmTotalEarnings(s)
  \/ \E u \in UserIds, id \in BuildIds, p \in PurchaseIds, rating \in Ratings :
       ReviewStart(u, id, p, rating)
  \/ \E s \in 1..MaxInFlight : ReviewExisting(s)
  \/ \E s \in 1..MaxInFlight : ReviewInsert(s)

SpecReviews == InitReviews /\ [][NextReviews]_vars

(***************************************************************************)
(* The requester's token, moderation flags and the /admin routes.  After   *)
(* the two middlewares an admin handler has one await of the database.     *)
(***************************************************************************)

\* the Authorization header: absent, a token verifyToken rejects, or the
\* signed payload of a user
NoToken == [kind |-> "none", userId |-> ""]

BadToken == [kind |-> "invalid", userId |-> ""]

Token(userId) == [kind |-> "valid", userId |-> userId]

Tokens == {NoToken, BadToken} \cup {Token(u) : u \in UserIds}

\* the error authMiddleware answers 401 with; "" when it calls next()
authMiddleware(t) ==
  IF t.kind = "none" THEN "Unauthorized"
  ELSE IF t.kind = "invalid" THEN "Invalid token"
  ELSE ""

\* the answer of a request the route's middlewares or handler end at once
Answer(code, error, wrote, data) ==
  /\ CanSend
  /\ sent' = sent + 1
  /\ resp' = [code |-> code, error |-> error, wrote |-> wrote, repeated |-> FALSE,
              data |-> data]
  /\ UNCHANGED <<stripe, env, reqs, scorerVars>>

\* app.use('/admin/*', authMiddleware, adminMiddleware): the request that
\* ends in a middleware
AdminDenied(t) ==
  IF authMiddleware(t) # ""
    THEN Answer(401, authMiddleware(t), FALSE, NoResp.data) /\ UNCHANGED db
    ELSE /\ ~adminMiddleware(t.userId)
         /\ Answer(403, "Forbidden", FALSE, NoResp.data) /\ UNCHANGED db

\* the request reaches the handler
AdminPassed(t) == authMiddleware(t) = "" /\ adminMiddleware(t.userId)

\* POST /builds/:id/flag; build_id refers to a row of builds
Flag(t, id) ==
  /\ Len(db.flags) < MaxFlags
  /\ IF authMiddleware(t) # ""
       THEN Answer(401, authMiddleware(t), FALSE, NoResp.data) /\ UNCHANGED db
     ELSE IF ~db.builds[id].exists
       THEN Answer(400, "violates foreign key constraint", FALSE, NoResp.data)
            /\ UNCHANGED db
     ELSE /\ db' = [db EXCEPT !.flags =
                      Append(@, [build_id |-> id, flagged_by |-> t.userId,
                                 resolved |-> FALSE, resolved_by |-> ""])]
          /\ Answer(201, "", TRUE, NoResp.data)

\* GET /admin/builds, with a status to filter by or none
AdminBuilds(t, status) ==
  \/ AdminDenied(t)
  \/ /\ AdminPassed(t)
     /\ Answer(200, "", FALSE,
               [kind |-> "admin builds",
                rows |-> {b \in BuildIds :
                            /\ db.builds[b].exists
                            /\ status # NoStatus => db.builds[b].status = status},
                builds |-> db.builds])
     /\ UNCHANGED db

\* POST /admin/builds/:id/approve
ApproveAs(t, id) == AdminDenied(t) \/ (authMiddleware(t) = "" /\ Approve(t.userId, id))

\* POST /admin/builds/:id/reject
RejectAs(t, id) == AdminDenied(t) \/ (authMiddleware(t) = "" /\ Reject(t.userId, id))

\* POST /admin/seed
SeedAs(t) == AdminDenied(t) \/ (authMiddleware(t) = "" /\ Seed(t.userId))

\* GET /admin/flags: the flags not resolved
AdminFlags(t) ==
  \/ AdminDenied(t)
  \/ /\ AdminPassed(t)
     /\ Answer(200, "", FALSE,
               [kind |-> "admin flags",
                rows |-> {f \in 1..Len(db.flags) : ~db.flags[f].resolved},
                flags |-> db.flags])
     /\ UNCHANGED db

\* POST /admin/flags/:id/resolve
ResolveFlag(t, f) ==
  \/ AdminDenied(t)
  \/ /\ AdminPassed(t)
     /\ IF f > Len(db.flags)
          THEN Answer(200, "", FALSE, NoResp.data) /\ UNCHANGED db
          ELSE /\ db' = [db EXCEPT !.flags[f].resolved = TRUE,
                                   !.flags[f].resolved_by = t.userId]
               /\ Answer(200, "", TRUE, NoResp.data)

\* GET /admin/users
AdminUsers(t) ==
  \/ AdminDenied(t)
  \/ /\ AdminPassed(t)
     /\ Answer(200, "", FALSE, [kind |-> "admin users", users |-> db.users])
     /\ UNCHANGED db

\* PUT /admin/builds/:id/feature
Feature(t, id, featured) ==
  \/ AdminDenied(t)
  \/ /\ AdminPassed(t)
     /\ IF ~db.builds[id].exists
          THEN Answer(200, "", FALSE, NoResp.data) /\ UNCHANGED db
          ELSE /\ db' = [db EXCEPT !.featured[id] =
                           [value |-> featured, by |-> RoleOf(t.userId)]]
               /\ Answer(200, "", TRUE, NoResp.data)

\* a request to a route under /admin with token t; the middlewares are the
\* same for all of them
AdminRequest(t) ==
  IF ~AdminPassed(t) THEN AdminDenied(t)
  ELSE \/ \E status \in {NoStatus, "pending"} : AdminBuilds(t, status)
       \/ \E id \in BuildIds : ApproveAs(t, id)
       \/ \E id \in BuildIds : RejectAs(t, id)
       \/ AdminFlags(t)
       \/ \E f \in 1..MaxFlags : ResolveFlag(t, f)
       \/ AdminUsers(t)
       \/ \E id \in BuildIds, featured \in BOOLEAN : Feature(t, id, featured)
       \/ SeedAs(t)

InitAdmin ==
  /\ InitBackend(NoEnv)
  /\ user = [playstyle_vector |-> NullVec]
  /\ build = [build_vector |-> NullVec,
              performance |-> [isNull |-> TRUE, shooting |-> Undefined]]
  /\ compat = NoCompat
  /\ pc = "closed"

\* users post and flag builds; requesters with any token call the admin routes
NextAdmin ==
  \/ \E u \in UserIds, id \in BuildIds, price \in Prices : PostBuild(u, id, price)
  \/ \E t \in Tokens, id \in BuildIds : Flag(t, id)
  \/ \E t \in Tokens, status \in {NoStatus, "pending"} : AdminBuilds(t, status)
  \/ \E t \in Tokens, id \in BuildIds : ApproveAs(t, id)
  \/ \E t \in Tokens, id \in BuildIds : RejectAs(t, id)
  \/ \E t \in Tokens : AdminFlags(t)
  \/ \E t \in Tokens, f \in 1..MaxFlags : ResolveFlag(t, f)
  \/ \E t \in Tokens : AdminUsers(t)
  \/ \E t \in Tokens, id \in BuildIds, featured \in BOOLEAN : Feature(t, id, featured)
  \/ \E t \in Tokens : SeedAs(t)

SpecAdmin == InitAdmin /\ [][NextAdmin]_vars

(***************************************************************************)
(* The routes that show builds.  They write view_count only, so each is    *)
(* taken as one step over a database other requests have filled.           *)
(***************************************************************************)

Null == <<"null">>

\* the `search` of the query: none, or a term found in the description of the
\* builds of that content and in no title or archetype
NoSearch == ""

Searches == {NoSearch, "a"}

\* the rows GET /builds selects
ListedBuilds(search) ==
  {b \in BuildIds :
     /\ db.builds[b].exists
     /\ db.builds[b].status = "active"
     /\ search # NoSearch => db.content[b].description = <<"description", search>>}

\* the reviews of a build
ReviewsOfBuild(id) == {i \in 1..Len(db.reviews) : db.reviews[i].build_id = id}

\* GET /builds: no middleware; the select names description, attributes and
\* badges
GetBuilds(t, search) ==
  /\ Answer(200, "", FALSE,
            [kind |-> "builds",
             rows |-> [b \in ListedBuilds(search) |->
                         [seller_id   |-> db.builds[b].seller_id,
                          price       |-> db.builds[b].price,
                          status      |-> db.builds[b].status,
                          featured    |-> db.featured[b].value,
                          view_count  |-> db.view_count[b],
                          description |-> db.content[b].description,
                          attributes  |-> db.content[b].attributes,
                          badges      |-> db.content[b].badges,
                          rated       |-> ReviewsOfBuild(b) # {}]]])
  /\ UNCHANGED db

hasPurchasedAnyBuyer(t, id) ==
  /\ t.kind = "valid"
  /\ SingleHasData({i \in PurchasesOfBuild(id) : db.purchases[i].status = "completed"})

\* hasPurchased of GET /builds/:id: the token verifies and maybeSingle() finds
\* the one completed purchase of its user and the build
hasPurchased(t, id) ==
  /\ t.kind = "valid"
  /\ SingleHasData({i \in PurchasesOf(t.userId, id) :
                      db.purchases[i].status = "completed"})

\* GET /builds/:id
GetBuild(t, id) ==
  /\ db.view_count[id] < MaxViews
  /\ IF ~db.builds[id].exists
       THEN Answer(404, "Build not found", FALSE, NoResp.data) /\ UNCHANGED db
       ELSE /\ db' = [db EXCEPT !.view_count[id] = @ + 1]
            /\ Answer(200, "", TRUE,
                 [kind |-> "build",
                  rows |-> [b \in {id} |->
                    [seller_id   |-> db.builds[b].seller_id,
                     price       |-> db.builds[b].price,
                     status      |-> db.builds[b].status,
                     featured    |-> db.featured[b].value,
                     view_count  |-> db.view_count[b],
                     description |-> IF hasPurchased(t, b)
                                       THEN db.content[b].description ELSE Null,
                     attributes  |-> IF hasPurchased(t, b)
                                       THEN db.content[b].attributes ELSE <<>>,
                     badges      |-> IF hasPurchased(t, b)
                                       THEN db.content[b].badges ELSE <<>>,
                     import_code |-> IF hasPurchased(t, b)
                                       THEN db.content[b].import_code ELSE Null,
                     height_in   |-> IF hasPurchased(t, b)
                                       THEN db.content[b].height_in ELSE Null,
                     weight_lbs  |-> IF hasPurchased(t, b)
                                       THEN db.content[b].weight_lbs ELSE Null,
                     badge_count     |-> Len(db.content[b].badges),
                     attribute_count |-> Len(db.content[b].attributes),
                     reviews     |-> ReviewsOfBuild(b)]]])

\* GET /builds/:id/qr
GetQr(t, id) ==
  /\ UNCHANGED db
  /\ IF authMiddleware(t) # ""
       THEN Answer(401, authMiddleware(t), FALSE, NoResp.data)
     ELSE IF ~SingleHasData(PurchasesOf(t.userId, id))
       THEN Answer(403, "Purchase not found", FALSE, NoResp.data)
     ELSE IF ~db.builds[id].exists
       THEN Answer(404, "Build not found", FALSE, NoResp.data)
     ELSE Answer(200, "", FALSE,
            [kind |-> "qr",
             rows |-> [b \in {id} |->
                         [qr          |-> <<"qr", db.content[b].import_code>>,
                          import_code |-> db.content[b].import_code]]])

\* the rows GET /leaderboard selects
RankedBuilds == {b \in BuildIds : db.builds[b].exists /\ db.builds[b].status = "active"}

\* enriched.sort: more sales first, then more views
RanksBefore(a, b) ==
  \/ Cardinality(PurchasesOfBuild(a)) > Cardinality(PurchasesOfBuild(b))
  \/ /\ Cardinality(PurchasesOfBuild(a)) = Cardinality(PurchasesOfBuild(b))
     /\ db.view_count[a] > db.view_count[b]

\* GET /leaderboard: no middleware; builds equal in sales and views come in
\* the order the database gave them
GetLeaderboard(t) ==
  /\ UNCHANGED db
  /\ \E rank \in [RankedBuilds -> 1..Cardinality(RankedBuilds)] :
       /\ \A a, b \in RankedBuilds : a # b => rank[a] # rank[b]
       /\ \A a, b \in RankedBuilds : RanksBefore(a, b) => rank[a] < rank[b]
       /\ Answer(200, "", FALSE,
                 [kind |-> "leaderboard",
                  rows |-> [b \in RankedBuilds |->
                              [seller_id   |-> db.builds[b].seller_id,
                               price       |-> db.builds[b].price,
                               view_count  |-> db.view_count[b],
                               rank        |-> rank[b],
                               sales_count |-> Cardinality(PurchasesOfBuild(b)),
                               rated       |-> ReviewsOfBuild(b) # {}]]])

\* a build as the other routes leave it: posted by a user, pending, approved
\* or sold, with the content its seller gave it
StoredBuilds ==
  {NoBuild} \cup
  {BuildRow(seller, status, price,
            IF status = "pending" THEN RoleOf(seller)
            ELSE IF status = "active" THEN "admin" ELSE "buyer") :
     seller \in UserIds, status \in {"pending", "active", "sold"}, price \in Prices}

InitView ==
  /\ \E builds \in [BuildIds -> StoredBuilds] :
     \E content \in [BuildIds -> {Content("a"), Content("b")}] :
     \E n \in 0..MaxPurchases :
     \E buyers \in [1..n -> UserIds \X {b \in BuildIds : builds[b].exists}] :
       /\ \A b \in BuildIds : ~builds[b].exists => content[b] = Content("a")
       /\ db = [EmptyDb EXCEPT
                  !.builds = builds,
                  !.content = content,
                  !.purchases =
                    [i \in 1..n |->
                       PurchaseRow([Idle EXCEPT !.user = JWTPayload(buyers[i][1]),
                                                !.id = buyers[i][2],
                                                !.build = builds[buyers[i][2]],
                                                !.pi = PiDemo])]]
  /\ stripe = <<>>
  /\ env = NoEnv
  /\ reqs = [s \in 1..MaxInFlight |-> Idle]
  /\ resp = NoResp
  /\ sent = 0
  /\ user = [playstyle_vector |-> NullVec]
  /\ build = [build_vector |-> NullVec,
              performance |-> [isNull |-> TRUE, shooting |-> Undefined]]
  /\ compat = NoCompat
  /\ pc = "closed"

\* requesters with any token read builds
NextView ==
  \/ \E t \in Tokens, search \in Searches : GetBuilds(t, search)
  \/ \E t \in Tokens, id \in BuildIds : GetBuild(t, id)
  \/ \E t \in Tokens, id \in BuildIds : GetQr(t, id)
  \/ \E t \in Tokens : GetLeaderboard(t)

SpecView == InitView /\ [][NextView]_vars

(***************************************************************************)
(* The properties of the scorer.                                           *)
(***************************************************************************)

AbsDiff(a, b) == IF a >= b THEN a - b ELSE b - a

UserItems == user.playstyle_vector.items
BuildItems == build.build_vector.items

\* the difference at dimension i of the call
DiffAt(i) == AbsDiff(UserItems[i], BuildItems[i])

\* a finished call on two vectors of 8 integers in 1..10
ValidCall ==
  /\ pc = "done"
  /\ IsValidVec(user.playstyle_vector)
  /\ IsValidVec(build.build_vector)

\* a finished call on a vector that is null or not of length 8
InvalidCall ==
  /\ pc = "done"
  /\ \/ user.playstyle_vector.isNull
     \/ build.build_vector.isNull
     \/ Len(UserItems) # 8
     \/ Len(BuildItems) # 8

ShootingAbsent == build.performance.isNull \/ ~build.performance.shooting.def

\* the shooting value of the build; read only when it is not absent
ShootingGiven == build.performance.shooting.val

RECURSIVE ClosenessSum(_)
\* the sum of 9 - |buyer[i] - build[i]| over the first n dimensions; the mean
\* of the dimScores is 100 * ClosenessSum(8) / 72
ClosenessSum(n) == IF n = 0 THEN 0 ELSE ClosenessSum(n - 1) + (9 - DiffAt(n))

\* ten times clamp(baseBoost + perfBoost, -15, 30) for a score and a shooting
\* value, in exact arithmetic: 10 * baseBoost = 5 * (score - 50) and
\* 10 * perfBoost = 3 * (shooting - 50)
Clamped10(score, shooting) ==
  LET x == 5 * (score - 50) + 3 * (shooting - 50)
  IN  IF x > 300 THEN 300 ELSE IF x < -150 THEN -150 ELSE x

\* C1: a call on a buyer or build vector that is null or has a length other
\* than 8 returns exactly {score: 70, label: "Good Match", strengths: [],
\* weaknesses: [], predictedWinBoost: 5}, whatever the build's performance.
C1_Fallback ==
  InvalidCall =>
    compat = [score |-> 70, label |-> "Good Match", strengths |-> <<>>,
              weaknesses |-> <<>>, predictedWinBoost |-> 5]

\* a valid buyer vector met a build vector of 9 entries whose shooting is 100
C1_Witness ==
  /\ InvalidCall
  /\ IsValidVec(user.playstyle_vector)
  /\ ~build.build_vector.isNull
  /\ Len(BuildItems) = 9
  /\ ~ShootingAbsent
  /\ ShootingGiven = 100
  /\ compat.predictedWinBoost = 5

C3_LabelBands ==
  ValidCall =>
    /\ compat.score >= 90 => compat.label = "Perfect Match"
    /\ compat.score \in 75..89 => compat.label = "Great Match"
    /\ compat.score \in 60..74 => compat.label = "Good Match"
    /\ compat.score \in 45..59 => compat.label = "Moderate Match"
    /\ compat.score <= 44 => compat.label = "Poor Match"

\* a score on the lower bound of the top band
C3_Witness ==
  /\ ValidCall
  /\ compat.score = 90
  /\ compat.label = "Perfect Match"

\* C4: on valid vectors and for every shooting value of the build,
\* predictedWinBoost is an integer nearest to clamp(baseBoost + perfBoost,
\* -15, 30), with baseBoost = ((score - 50) / 50) * 25 of the rounded score
\* and perfBoost = (shooting - 50) * 0.3.
C4_WinBoostFormula ==
  (ValidCall /\ ~ShootingAbsent) =>
    (10 * compat.predictedWinBoost - Clamped10(compat.score, ShootingGiven)) \in -5..5

\* C5: the shooting value the scorer uses is 50 only when the build has none;
\* a value that is present, 0 included, is used as given.
C5_ShootingDefault ==
  ValidCall =>
    ShootingUsed(build.performance) = (IF ShootingAbsent THEN 50 ELSE ShootingGiven)

\* C6: on valid vectors and a shooting value that is absent or in 0..100,
\* predictedWinBoost is an integer in -15..30.
C6_WinBoostRange ==
  (ValidCall /\ (ShootingAbsent \/ ShootingGiven \in 0..100)) =>
    compat.predictedWinBoost \in -15..30

\* score 100 with shooting 100: 25 + 15 is cut down to 30
C6_Witness ==
  /\ ValidCall
  /\ ~ShootingAbsent
  /\ ShootingGiven = 100
  /\ compat.score = 100
  /\ compat.predictedWinBoost = 30

\* C7: whenever baseBoost + perfBoost, with perfBoost = (shooting - 50) * 0.3
\* and shooting 50 when absent, exceeds 30 the result is 30, and whenever it
\* is below -15 the result is -15.
C7_Clamping ==
  ValidCall =>
    LET shooting == IF ShootingAbsent THEN 50 ELSE ShootingGiven
        x10      == 5 * (compat.score - 50) + 3 * (shooting - 50)
    IN  /\ x10 > 300 => compat.predictedWinBoost = 30
        /\ x10 < -150 => compat.predictedWinBoost = -15

\* the differences between two entries in 1..10
Diffs == 0..9

\* every dimScore lies in 0..100, and is 100 for the difference 0 and 0 for
\* the difference 9
DimScoresInRange ==
  /\ \A d \in Diffs : FGeq(DimScore(d), Num(0)) /\ FGeq(Num(100), DimScore(d))
  /\ DimScore(0) = Num(100)
  /\ DimScore(9) = Num(0)

\* C8: on valid vectors the score is an integer in 0..100 and every dimScore
\* lies in 0..100, 100 for the difference 0 and 0 for the difference 9.
C8_ScoreRange ==
  ValidCall =>
    /\ compat.score \in 0..100
    /\ \A i \in 1..8 : DiffAt(i) \in Diffs
    /\ DimScoresInRange

\* one call with a dimension of difference 0 and a dimension of difference 9
C8_Witness ==
  /\ ValidCall
  /\ \E i \in 1..8 : DiffAt(i) = 0
  /\ \E i \in 1..8 : DiffAt(i) = 9

\* the j-th smallest element of a set of dimensions
NthOf(S, j) == CHOOSE i \in S : Cardinality({m \in S : m < i}) = j - 1

\* the label of dimension i on the buyer's side: high for buyer[i] >= 5
BuyerLabel(i) ==
  IF UserItems[i] >= 5 THEN DIMENSION_LABELS[PLAYSTYLE_KEYS[i]].high
                       ELSE DIMENSION_LABELS[PLAYSTYLE_KEYS[i]].low

AlignedDims == {i \in 1..8 : DiffAt(i) <= 2}
MisalignedDims == {i \in 1..8 : DiffAt(i) >= 5}

\* dimScore >= 75 holds for the differences 0, 1, 2 and for no other
AlignedIsDiffAtMost2 ==
  \A d \in Diffs : FGeq(DimScore(d), Num(75)) <=> d <= 2

\* dimScore < 45 holds for the differences 5..9 and for no other
MisalignedIsDiffAtLeast5 ==
  \A d \in Diffs : FLess(DimScore(d), Num(45)) <=> d >= 5

\* C9: strengths holds, in dimension order, the phrases "Fits your <label>"
\* of the first 3 dimensions with dimScore >= 75, that is with a difference
\* of at most 2; the label is the high one for buyer[i] >= 5, else the low one.
C9_Strengths ==
  ValidCall =>
    /\ AlignedIsDiffAtMost2
    /\ Len(compat.strengths) =
         (IF Cardinality(AlignedDims) < 3 THEN Cardinality(AlignedDims) ELSE 3)
    /\ \A j \in 1..Len(compat.strengths) :
         compat.strengths[j] = <<"Fits your ", BuyerLabel(NthOf(AlignedDims, j))>>

\* more than 3 aligned dimensions, the first three with a low and a high label
C9_Witness ==
  /\ ValidCall
  /\ Cardinality(AlignedDims) > 3
  /\ Len(compat.strengths) = 3
  /\ \E j \in 1..3 : UserItems[NthOf(AlignedDims, j)] >= 5
  /\ \E j \in 1..3 : UserItems[NthOf(AlignedDims, j)] < 5

\* C10: weaknesses holds, in dimension order, the phrases "Conflicts with
\* your <label>" of the first 2 dimensions with dimScore < 45, that is with a
\* difference of at least 5; the label is the high one for buyer[i] >= 5, else
\* the low one.
C10_Weaknesses ==
  ValidCall =>
    /\ MisalignedIsDiffAtLeast5
    /\ Len(compat.weaknesses) =
         (IF Cardinality(MisalignedDims) < 2 THEN Cardinality(MisalignedDims) ELSE 2)
    /\ \A j \in 1..Len(compat.weaknesses) :
         compat.weaknesses[j] =
           <<"Conflicts with your ", BuyerLabel(NthOf(MisalignedDims, j))>>

\* more than 2 misaligned dimensions, the first two with a low and a high label
C10_Witness ==
  /\ ValidCall
  /\ Cardinality(MisalignedDims) > 2
  /\ Len(compat.weaknesses) = 2
  /\ \E j \in 1..2 : UserItems[NthOf(MisalignedDims, j)] >= 5
  /\ \E j \in 1..2 : UserItems[NthOf(MisalignedDims, j)] < 5

\* C11: when all 8 dimensions have dimScore >= 75 (every difference is at most
\* 2), strengths is exactly the phrases of dimensions 0, 1 and 2 in that
\* order, and weaknesses is empty.
C11_AllAligned ==
  (ValidCall /\ \A i \in 1..8 : DiffAt(i) <= 2) =>
    /\ AlignedIsDiffAtMost2
    /\ compat.strengths = << <<"Fits your ", BuyerLabel(1)>>,
                             <<"Fits your ", BuyerLabel(2)>>,
                             <<"Fits your ", BuyerLabel(3)>> >>
    /\ compat.weaknesses = <<>>

\* eight aligned dimensions, some of difference 0 and some of difference 2
C11_Witness ==
  /\ ValidCall
  /\ \A i \in 1..8 : DiffAt(i) <= 2
  /\ \E i \in 1..8 : DiffAt(i) = 0
  /\ \E i \in 1..8 : DiffAt(i) = 2
  /\ Len(compat.strengths) = 3

\* the two labels of dimension i
DimLabels(i) ==
  {DIMENSION_LABELS[PLAYSTYLE_KEYS[i]].low, DIMENSION_LABELS[PLAYSTYLE_KEYS[i]].high}

\* the list of phrases holds a phrase of dimension i
Contributes(phrases, i) ==
  \E j \in 1..Len(phrases) : phrases[j][2] \in DimLabels(i)

\* 45 <= dimScore < 75 holds for the differences 3 and 4 and for no other
MiddleBandIsDiff3Or4 ==
  \A d \in Diffs :
    (FGeq(DimScore(d), Num(45)) /\ FLess(DimScore(d), Num(75))) <=> d \in {3, 4}

\* C12: no dimension has a phrase in both strengths and weaknesses, and when
\* every dimScore is at least 45 and below 75 (every difference is 3 or 4)
\* both lists are empty.
C12_Disjoint ==
  ValidCall =>
    /\ MiddleBandIsDiff3Or4
    /\ \A i \in 1..8 :
         ~(Contributes(compat.strengths, i) /\ Contributes(compat.weaknesses, i))
    /\ (\A i \in 1..8 : DiffAt(i) \in {3, 4}) =>
         (compat.strengths = <<>> /\ compat.weaknesses = <<>>)

\* every difference is 3 or 4, both occur, and the two lists are empty
C12_Witness ==
  /\ ValidCall
  /\ \A i \in 1..8 : DiffAt(i) \in {3, 4}
  /\ \E i \in 1..8 : DiffAt(i) = 3
  /\ \E i \in 1..8 : DiffAt(i) = 4
  /\ compat.strengths = <<>>
  /\ compat.weaknesses = <<>>

\* C13: a valid vector scored against itself yields score 100 and the label
\* "Perfect Match", for every shooting value.
C13_Identity ==
  (ValidCall /\ UserItems = BuildItems) =>
    (compat.score = 100 /\ compat.label = "Perfect Match")

\* a vector of unequal entries against itself, the build's shooting being 0
C13_Witness ==
  /\ ValidCall
  /\ UserItems = BuildItems
  /\ UserItems[1] # UserItems[2]
  /\ ~ShootingAbsent
  /\ ShootingGiven = 0
  /\ compat.score = 100

\* C14: when every position of the buyer differs from the same position of
\* the build by exactly 9, the score is 0 and the label "Poor Match".
C14_Opposition ==
  (ValidCall /\ \A i \in 1..8 : DiffAt(i) = 9) =>
    (compat.score = 0 /\ compat.label = "Poor Match")

\* a buyer of entries 1 and 10 against its mirror
C14_Witness ==
  /\ ValidCall
  /\ \A i \in 1..8 : DiffAt(i) = 9
  /\ UserItems[1] = 1
  /\ UserItems[2] = 10
  /\ compat.score = 0

\* the values `total` can hold after n iterations of the loop, over all
\* sequences of differences of valid vectors (buyer entry 1, build entry 1 + d)
RECURSIVE TotalsAfter(_)
TotalsAfter(n) ==
  IF n = 0
    THEN {Num(0)}
    ELSE {LoopBody([total |-> t, alignedDimensions |-> <<>>,
                    misalignedDimensions |-> <<>>],
                   [j \in 1..8 |-> 1], [j \in 1..8 |-> 1 + d], n).total :
            t \in TotalsAfter(n - 1), d \in Diffs}

\* every score calcCompatibility returns for some pair of valid vectors
AllScores == {MathRound(FDiv(t, Num(8))) : t \in TotalsAfter(8)}

\* the eight scores next to the label thresholds, with the label of each
BoundaryLabel ==
  [s \in {90, 89, 75, 74, 60, 59, 45, 44} |->
     CASE s = 90 -> "Perfect Match"
       [] s \in {89, 75} -> "Great Match"
       [] s \in {74, 60} -> "Good Match"
       [] s \in {59, 45} -> "Moderate Match"
       [] OTHER -> "Poor Match"]

\* C15 as stated: each of the scores 90, 89, 75, 74, 60, 59, 45 and 44 is
\* produced by at least one pair of valid vectors, whatever call is at hand.
C15_AllBoundariesProduced ==
  pc \in {"idle", "done"} => DOMAIN BoundaryLabel \subseteq AllScores

\* C15, amended: the scores 90, 89, 75, 74, 60 and 44 are each produced by a
\* pair of valid vectors and carry the labels Perfect, Great, Great, Good,
\* Good and Poor; 59 and 45 are produced by no pair of valid vectors, and
\* every score of a valid call is one of the producible scores.
C15_ProducibleBoundaries ==
  /\ {90, 89, 75, 74, 60, 44} \subseteq AllScores
  /\ 59 \notin AllScores
  /\ 45 \notin AllScores
  /\ ValidCall =>
       /\ compat.score \in AllScores
       /\ compat.score \in DOMAIN BoundaryLabel =>
            compat.label = BoundaryLabel[compat.score]

\* a call whose score is the boundary 44, labelled "Poor Match"
C15_Witness ==
  /\ ValidCall
  /\ compat.score = 44
  /\ compat.label = "Poor Match"

\* the shape of a CompatibilityResult
IsCompatibilityResult(r) ==
  /\ DOMAIN r = {"score", "label", "strengths", "weaknesses", "predictedWinBoost"}
  /\ r.score \in 0..100
  /\ r.label \in {"Perfect Match", "Great Match", "Good Match",
                  "Moderate Match", "Poor Match"}
  /\ Len(r.strengths) <= 3
  /\ Len(r.weaknesses) <= 2
  /\ r.predictedWinBoost \in -15..30

\* C16: calcCompatibility never raises: whether the vectors are null, of a
\* wrong length or valid, and whether the performance record is present,
\* absent or without a shooting value, the call returns a CompatibilityResult:
\* the fallback for invalid vectors, and for valid vectors without a shooting
\* value the result computed with shooting 50.
C16_NeverRaises ==
  /\ pc # "threw"
  /\ pc = "done" =>
       /\ IsCompatibilityResult(compat)
       /\ InvalidCall => compat = FallbackResult
       /\ (ValidCall /\ ShootingAbsent) =>
            (10 * compat.predictedWinBoost - Clamped10(compat.score, 50)) \in -5..5

\* a call with valid vectors on a build that has no performance record
C16_Witness ==
  /\ ValidCall
  /\ build.performance.isNull
  /\ compat.score < 70
  /\ compat.predictedWinBoost < 5

(***************************************************************************)
(* The properties of the marketplace API.                                  *)
(***************************************************************************)

\* C18: with a valid Stripe key, every purchase with status 'completed' was
\* inserted by a request that had retrieved a payment intent of that build
\* with status 'succeeded'; and a confirm request answered 'Payment not
\* completed' gets 400 and has written nothing (no purchase, no build status,
\* no totals).
C18_PaymentGate ==
  /\ env.hasValidStripeKey =>
       \A i \in 1..Len(db.purchases) :
         db.purchases[i].status = "completed" =>
           /\ db.purchases[i].retrieved \in 1..Len(stripe)
           /\ stripe[db.purchases[i].retrieved].status = "succeeded"
           /\ stripe[db.purchases[i].retrieved].buildId = db.purchases[i].build_id
  /\ resp.error = "Payment not completed" => (resp.code = 400 /\ ~resp.wrote)

\* C19: a build whose status is 'active' got that status from a request of
\* an admin; a build a non-admin created or updated is not 'active'.
C19_ModerationGate ==
  \A b \in BuildIds :
    (db.builds[b].exists /\ db.builds[b].status = "active") =>
      db.builds[b].status_by = "admin"

\* C20: no buyer has two purchase records of one build, and a checkout or
\* confirm request of a buyer who has a purchase of the build is rejected
\* with 400 (by 'Already purchased', or earlier by the checks of the build)
\* and writes nothing.
C20_AtMostOnePurchase ==
  /\ \A u \in UserIds, b \in BuildIds : Cardinality(PurchasesOf(u, b)) <= 1
  /\ resp.repeated =>
       /\ resp.code = 400
       /\ resp.error \in {"Already purchased", "Build is not available",
                          "Cannot buy your own build"}
       /\ ~resp.wrote

\* C21: every step that records a purchase records it for a build that is
\* 'active' at that moment (so not for one already marked 'sold') and whose
\* seller is not the buyer.
C21_PurchaseGate ==
  [][Len(db'.purchases) > Len(db.purchases) =>
       LET row == db'.purchases[Len(db'.purchases)]
       IN  /\ db.builds[row.build_id].exists
           /\ db.builds[row.build_id].status = "active"
           /\ db.builds[row.build_id].seller_id # row.buyer_id
           /\ row.seller_id # row.buyer_id]_vars

RECURSIVE SumOfAmounts(_, _)
\* the sum of the amounts of the purchases a buyer made
SumOfAmounts(rows, u) ==
  IF rows = <<>> THEN 0
  ELSE (IF Head(rows).buyer_id = u THEN Head(rows).amount ELSE 0)
       + SumOfAmounts(Tail(rows), u)

RECURSIVE SumOfPayouts(_, _)
\* the sum of seller_payout over the purchases of a seller's builds
SumOfPayouts(rows, u) ==
  IF rows = <<>> THEN 0
  ELSE (IF Head(rows).seller_id = u THEN Head(rows).seller_payout ELSE 0)
       + SumOfPayouts(Tail(rows), u)

\* no request is in flight
Quiescent == \A s \in 1..MaxInFlight : reqs[s].kind = "idle"

\* C26: when no request is in flight, total_spent of every user is the sum
\* of the amounts of the purchases the user made, and total_earnings of every
\* user is the sum of seller_payout over the purchases of the user's builds.
C26_TotalsAreSums ==
  Quiescent =>
    \A u \in UserIds :
      /\ db.users[u].total_spent = SumOfAmounts(db.purchases, u)
      /\ db.users[u].total_earnings = SumOfPayouts(db.purchases, u)


\* C25: a step never removes a build that is 'sold' or that a purchase refers
\* to; DELETE answers 'Cannot delete sold build' with 400, PUT and DELETE
\* answer a requester who is neither the seller nor an admin with 403, and
\* the request so answered wrote nothing.
C25_SoldBuildKept ==
  [][/\ \A b \in BuildIds :
          (/\ db.builds[b].exists
           /\ \/ db.builds[b].status = "sold"
              \/ PurchasesOfBuild(b) # {})
            => db'.builds[b].exists
     /\ (sent' # sent /\ resp'.error = "Cannot delete sold build")
          => resp'.code = 400 /\ db' = db
     /\ (sent' # sent /\ resp'.code = 403) => db' = db]_vars

\* C27: every review carries the id of a purchase of its buyer and its
\* build, no buyer has two reviews of a build, and a request answered with
\* 403 'No valid purchase found' or 400 'Already reviewed' wrote no review.
C27_OneReviewPerPurchase ==
  /\ \A i \in 1..Len(db.reviews) :
       db.reviews[i].purchase_id \in PurchasesOf(db.reviews[i].buyer_id,
                                                  db.reviews[i].build_id)
  /\ \A u \in UserIds, b \in BuildIds : Cardinality(ReviewsOf(u, b)) <= 1
  /\ resp.error = "No valid purchase found" => resp.code = 403 /\ ~resp.wrote
  /\ resp.error = "Already reviewed" => resp.code = 400 /\ ~resp.wrote

\* C24: a request to a route under /admin whose token is absent or invalid
\* is answered 401, one whose token is of a role other than 'admin' is
\* answered 403, and in both cases the answer carries no data and no table
\* changes; what the answer of such a route carries or changes, it does for
\* a token of role 'admin'.
C24_AdminOnly ==
  [][\A t \in Tokens :
       \/ /\ t.kind # "valid" => resp'.code = 401
          /\ (t.kind = "valid" /\ RoleOf(t.userId) # "admin") => resp'.code = 403
          /\ (t.kind # "valid" \/ RoleOf(t.userId) # "admin") =>
               /\ db' = db
               /\ ~resp'.wrote
               /\ resp'.data = NoResp.data
          /\ resp'.code \in {401, 403} =>
               (t.kind # "valid" \/ RoleOf(t.userId) # "admin")
       \/ ~AdminRequest(t)]_vars

\* an admin approved a build and resolved a flag after a requester of
\* another role was answered 403, and the last request, without a valid
\* token, was answered 401
C24_Witness ==
  /\ resp.code = 401
  /\ \E b \in BuildIds :
       /\ db.builds[b].exists
       /\ db.builds[b].status = "active"
       /\ db.builds[b].status_by = "admin"
  /\ \E f \in 1..Len(db.flags) :
       db.flags[f].resolved /\ RoleOf(db.flags[f].flagged_by) # "admin"

\* the fields of a build only its buyers are to see
GatedFields ==
  {"description", "attributes", "badges", "import_code", "height_in", "weight_lbs"}

\* C22: GET /builds/:id answers a requester who has no valid token of a user
\* with a completed purchase of the build with description, import_code,
\* height_in and weight_lbs null and attributes and badges empty; to every
\* requester badge_count and attribute_count are the numbers of the build's
\* badges and attributes.
C22_GatedFields ==
  [][\A t \in Tokens, id \in BuildIds :
       (GetBuild(t, id) /\ resp'.code = 200) =>
         LET row == resp'.data.rows[id]
             buyer == /\ t.kind = "valid"
                      /\ \E i \in PurchasesOf(t.userId, id) :
                           db.purchases[i].status = "completed"
         IN  /\ ~buyer => \A f \in GatedFields : row[f] \in {Null, <<>>}
             /\ \A f \in GatedFields : row[f] \in {Null, <<>>, db.content[id][f]}
             /\ row.badge_count = Len(db.content[id].badges)
             /\ row.attribute_count = Len(db.content[id].attributes)]_vars

\* GET /builds/:id answered with the gated fields null or empty and the true
\* counts, for a build somebody bought after the requester was shown it
C22_Witness ==
  /\ resp.code = 200
  /\ resp.data.kind = "build"
  /\ db.purchases # <<>>
  /\ \E id \in DOMAIN resp.data.rows :
       /\ PurchasesOfBuild(id) # {}
       /\ resp.data.rows[id].import_code = Null
       /\ resp.data.rows[id].badges = <<>>
       /\ resp.data.rows[id].badge_count = 1
       /\ resp.data.rows[id].attribute_count = 2

\* C23: what GET /builds, GET /builds/:id, GET /leaderboard and
\* GET /builds/:id/qr answer about a build to a requester who has no
\* completed purchase of it, is not its seller and is not an admin carries
\* no description, attributes, badges or import code of the build.
C23_NoLeak ==
  [][\A t \in Tokens :
       (/\ resp'.code = 200
        /\ \/ \E search \in Searches : GetBuilds(t, search)
           \/ \E id \in BuildIds : GetBuild(t, id)
           \/ \E id \in BuildIds : GetQr(t, id)
           \/ GetLeaderboard(t)) =>
         \A b \in DOMAIN resp'.data.rows :
           (\/ t.kind # "valid"
            \/ /\ RoleOf(t.userId) # "admin"
               /\ db.builds[b].seller_id # t.userId
               /\ \A i \in PurchasesOf(t.userId, b) :
                    db.purchases[i].status # "completed") =>
             \A f \in {"description", "attributes", "badges", "import_code", "qr"}
                     \cap DOMAIN resp'.data.rows[b] :
               resp'.data.rows[b][f] \in {Null, <<>>}]_vars
====
